---- MODULE Spec2Model ----
\* Tasking models of pulpcore (pulpcore/app/models/task.py): the Task row and
\* its conditional state updates, the per-task PostgreSQL advisory lock taken
\* by Task.__enter__ / Task.__exit__, and the database sessions using them.
\*
\* Spec is the whole system. The lock operations read and write only the lock
\* table and self.lock, the state updates only the Task table, so the two
\* halves are also checked on their own: SpecLock (sessions and advisory
\* locks) and SpecTask (conditional updates and cancellation within one
\* reading of the clock). SpecOwner, SpecRow and SpecEdit follow one task
\* through its lock holder, the clock and its in-memory copies; SpecWorker,
\* SpecGroup, SpecRefs and SpecReaper cover the worker registry, task groups,
\* references between rows and the reaping of dead workers' tasks; SpecRoles
\* covers the locked roles adjusted at deployment (pulpcore/app/apps.py).
EXTENDS Integers, FiniteSets, Sequences, TLC

\* ---------------------------------------------------------------- bounds
\* Number of database sessions (worker processes, each with one connection).
NumSessions == 2
\* Last value of the clock timezone.now() reads.
MaxTime == 2
\* Cap on how often one session stacks the same advisory lock.
MaxHold == 2

\* Cap on the number of rows ever created in the Worker table.
MaxWorkers == 2
\* Last value of the clock in the worker registry's specification.
MaxWorkerTime == 3

\* ------------------------------------------------------------- constants
\* settings.WORKER_TTL, in ticks of the clock.
WORKER_TTL == 1
\* A DateTimeField(null=True) holding NULL; timestamps are 1..MaxTime.
NullTime == 0
\* A JSONField(null=True) holding NULL, shaped like the payloads it is compared with.
NullError == [description |-> "null", traceback |-> "null"]

WAITING == "waiting"
RUNNING == "running"
COMPLETED == "completed"
FAILED == "failed"
CANCELED == "canceled"
SKIPPED == "skipped"
TASK_FINAL_STATES == {SKIPPED, COMPLETED, FAILED, CANCELED}
TaskStates == {WAITING, RUNNING} \cup TASK_FINAL_STATES

Sessions == 1..NumSessions
\* Worker.name as stored, and the values an instance in memory may carry.
WorkerNames == {"worker1@host", "worker2@host"}
InstanceNames == WorkerNames \cup {"unsaved"}
Times == 1..MaxTime

\* ------------------------------------------------------ 128-bit integers
\* An unbounded Python int is the set of the positions of its 1 bits, so the
\* shift, the XOR and the mask are computed bit for bit.
ShiftRight(value, n) == {b - n : b \in {x \in value : x >= n}}
BitXor(a, b) == (a \ b) \cup (b \ a)
BitAnd(a, b) == a \cap b
\* 0x7FFFFFFFFFFFFFFF
LockMask == 0..62

\* Fault variant: the id masked without folding its high half in.
_uuid_to_advisory_lock_unfolded(value) == BitAnd(value, LockMask)

_uuid_to_advisory_lock(value) == BitAnd(BitXor(ShiftRight(value, 64), value), LockMask)

\* The primary keys (pk.int) of the tasks in the table: 2^0, 2^64 (same key as
\* 2^0 after the fold) and 2^1 + 2^63 (bit 63 is masked away).
UuidA == {0}
UuidB == {64}
UuidC == {1, 63}
AllTaskIds == {UuidA, UuidB, UuidC}
LockKeys == {_uuid_to_advisory_lock(t) : t \in AllTaskIds}

\* No Task instance loaded / self.lock not yet assigned.
NoPk == {-1}
NoLock == {-1}

\* reserved_resources_record as written when the task is created.
ReservedAtCreation(t) == IF t = UuidA THEN <<"x">> ELSE IF t = UuidB THEN <<"y", "x">> ELSE <<>>

\* A ForeignKey(null=True) to a Worker or a TaskGroup holding NULL.
NullRef == 0
\* The primary keys of the task groups, and TaskGroup.description values.
GroupIds == {1, 2}
Descriptions == {"batch", "edited"}

\* parent_task and task_group as written when the task is created: A spawned
\* B and C, and the three were dispatched in group 1.
ParentAtCreation(t) == IF t = UuidA THEN NoPk ELSE UuidA
GroupAtCreation(t) == 1

\* name, args and kwargs as written when the task is created.
NameAtCreation(t) == IF t = UuidA THEN "sync" ELSE "publish"
ArgsAtCreation(t) == <<"repo">>
KwargsAtCreation(t) == IF t = UuidA THEN [mirror |-> TRUE] ELSE [mirror |-> FALSE]

\* exception_to_dict(exc, tb_str) for the one exception the model raises.
Errors == {[description |-> "boom", traceback |-> "tb"]}

\* ------------------------------------------------------------ role names
\* A role name is the sequence of its parts: "core.viewer" is
\* <<"core", ".", "viewer">>, and the prefix "core." is <<"core", ".">>.
RoleNames == {<<"core", ".", "viewer">>, <<"core", ".", "owner">>, <<"core", ".", "custom">>, <<"file", ".", "viewer">>}
\* The permissions the Permission table holds, as "app_label.codename".
Permissions == {"core.view_task", "core.change_task"}
\* Role.description holding None.
NoDescription == "None"
\* No row of that name in the Role table.
NoRole == [stored |-> FALSE, locked |-> FALSE, description |-> NoDescription, permissions |-> {}]
\* The table before any deployment: one role a user defined, not locked.
RolesAtStart == [n \in RoleNames |-> IF n = <<"core", ".", "custom">> THEN [stored |-> TRUE, locked |-> FALSE, description |-> "mine", permissions |-> {"core.view_task"}] ELSE NoRole]

VARIABLES
    now,      \* timezone.now()
    tasks,    \* the Task table: pk -> row
    held,     \* session-level advisory locks: session -> key -> times held
    inst,     \* each session's Task instance: pk, self.lock and the fields in memory
    call,     \* what happened last: session, op, task, rows matched (for a session
              \* end: locks dropped), exception raised
    wins,     \* history, per task: how many updates matched it, by transition
    workers,  \* the Worker table: pk -> row, pks numbered in order of creation
    winst,    \* each worker process's Worker instance in memory, by process name
    groups,   \* the TaskGroup table: pk -> row
    ginst,    \* each session's TaskGroup instance in memory
    roles     \* the Role table: name -> row, with its permissions

vars == <<now, tasks, held, inst, call, wins, workers, winst, groups, ginst, roles>>
\* What the lock operations and the Task updates never touch.
sideVars == <<workers, winst, groups, ginst, roles>>
\* What the Worker operations never touch.
taskVars == <<tasks, held, inst, wins, groups, ginst, roles>>
\* What the TaskGroup operations never touch.
nonGroupVars == <<now, held, inst, wins, workers, winst, roles>>

TaskIds == DOMAIN tasks
\* Nothing has happened yet: no session is numbered 0.
NoCall == [s |-> 0, op |-> "none", pk |-> NoPk, rows |-> 0, exc |-> "none"]
\* The fields of an instance that was never loaded.
NoRow == [state |-> "none"]
NoInst == [pk |-> NoPk, lock |-> NoLock, row |-> NoRow]
\* No TaskGroup instance in memory.
NoGroup == [pk |-> NullRef, description |-> "none", all_tasks_dispatched |-> FALSE]
\* No Worker instance in memory; pk 0 is an instance that was never saved.
NoWorker == [pk |-> 0, name |-> "none", last_heartbeat |-> NullTime]

InitWith(ids) ==
    /\ now = 1
    /\ tasks = [t \in ids |-> [state |-> WAITING, started_at |-> NullTime, finished_at |-> NullTime, error |-> NullError, name |-> NameAtCreation(t), args |-> ArgsAtCreation(t), kwargs |-> KwargsAtCreation(t), reserved_resources_record |-> ReservedAtCreation(t), worker |-> NullRef, parent_task |-> ParentAtCreation(t), task_group |-> GroupAtCreation(t)]]
    /\ held = [s \in Sessions |-> [k \in LockKeys |-> 0]]
    /\ inst = [s \in Sessions |-> NoInst]
    /\ call = NoCall
    /\ wins = [t \in ids |-> [run |-> 0, fin |-> 0]]
    /\ workers = <<>>
    /\ winst = [p \in WorkerNames |-> NoWorker]
    /\ groups = [g \in GroupIds |-> [stored |-> TRUE, description |-> "batch", all_tasks_dispatched |-> FALSE]]
    /\ ginst = [s \in Sessions |-> NoGroup]
    /\ roles = RolesAtStart

Init == InitWith(AllTaskIds)

\* --------------------------------------------------------- advisory lock
Holders(k) == {s \in Sessions : held[s][k] > 0}

\* The key of the Task instance of session s.
Key(s) == _uuid_to_advisory_lock(inst[s].pk)

\* Fault variant: pg_try_advisory_lock_shared, granted to several sessions at once.
pg_try_advisory_lock_shared(s, k) == TRUE

\* SELECT pg_try_advisory_lock(k) in session s: granted unless another session
\* holds k (the holder itself stacks it); never waits.
pg_try_advisory_lock(s, k) == Holders(k) \subseteq {s}

\* SELECT pg_advisory_unlock(k) in session s: true iff s held k.
pg_advisory_unlock(s, k) == held[s][k] > 0

\* Task.objects.get(pk=t): a fresh instance of an existing row.
TaskGet(s, t) ==
    /\ inst' = [inst EXCEPT ![s] = [pk |-> t, lock |-> NoLock, row |-> tasks[t]]]
    /\ UNCHANGED <<now, tasks, held, call, wins>>
    /\ UNCHANGED sideVars

Task__enter__(s) ==
    /\ inst[s].pk # NoPk
    /\ LET lock == _uuid_to_advisory_lock(inst[s].pk)
           acquired == pg_try_advisory_lock(s, lock)
       IN  /\ acquired => held[s][lock] < MaxHold
           /\ inst' = [inst EXCEPT ![s].lock = lock]
           /\ held' = IF acquired THEN [held EXCEPT ![s][lock] = @ + 1] ELSE held
           /\ call' = [s |-> s, op |-> "__enter__", pk |-> inst[s].pk, rows |-> 0, exc |-> IF acquired THEN "none" ELSE "AdvisoryLockError"]
    /\ UNCHANGED <<now, tasks, wins>>
    /\ UNCHANGED sideVars

\* What the body of a with block raised, as __exit__ receives it in exc_type.
BodyOutcomes == {"none", "Exception", "RuntimeError"}

\* The with statement: the exception that leaves it, given what the body
\* raised, what __exit__ raised and whether __exit__ returned a true value.
WithOutcome(exc_type, raised, suppress) == IF raised # "none" THEN raised ELSE IF suppress THEN "none" ELSE exc_type

\* Fault variant: the lock released only when the body raised nothing.
Task__exit__unless_raised(s, exc_type) ==
    /\ inst[s].pk # NoPk
    /\ inst[s].lock # NoLock
    /\ LET lock == inst[s].lock
           released == exc_type = "none" /\ pg_advisory_unlock(s, lock)
       IN  /\ held' = IF released THEN [held EXCEPT ![s][lock] = @ - 1] ELSE held
           /\ call' = [s |-> s, op |-> "__exit__", pk |-> inst[s].pk, rows |-> 0, exc |-> "none", leaves |-> WithOutcome(exc_type, "none", FALSE)]
    /\ UNCHANGED <<now, tasks, inst, wins>>
    /\ UNCHANGED sideVars

\* self.lock is an attribute only __enter__ assigns: on an instance that never
\* entered, reading it raises AttributeError before any statement is sent.
\* exc_type is not looked at, and the method returns None when it returns.
Task__exit__(s, exc_type) ==
    /\ inst[s].pk # NoPk
    /\ IF inst[s].lock = NoLock
       THEN /\ held' = held
            /\ call' = [s |-> s, op |-> "__exit__", pk |-> inst[s].pk, rows |-> 0, exc |-> "AttributeError", leaves |-> WithOutcome(exc_type, "AttributeError", FALSE)]
       ELSE LET lock == inst[s].lock
                released == pg_advisory_unlock(s, lock)
                raised == IF released THEN "none" ELSE "RuntimeError"
            IN  /\ held' = IF released THEN [held EXCEPT ![s][lock] = @ - 1] ELSE held
                /\ call' = [s |-> s, op |-> "__exit__", pk |-> inst[s].pk, rows |-> 0, exc |-> raised, leaves |-> WithOutcome(exc_type, raised, FALSE)]
    /\ UNCHANGED <<now, tasks, inst, wins>>
    /\ UNCHANGED sideVars

\* Fault variant: a lock that outlives the session (a row in a table).
SessionEndKeepsLocks(s) ==
    /\ inst' = [inst EXCEPT ![s] = NoInst]
    /\ call' = [s |-> s, op |-> "session_end", pk |-> NoPk, rows |-> Cardinality({k \in LockKeys : held[s][k] > 0}), exc |-> "none"]
    /\ UNCHANGED <<now, tasks, held, wins>>
    /\ UNCHANGED sideVars

\* The session's connection ends (worker crash, disconnect): PostgreSQL drops
\* every session-level advisory lock it held, and the process memory is gone.
SessionEnd(s) ==
    /\ held' = [held EXCEPT ![s] = [k \in LockKeys |-> 0]]
    /\ inst' = [inst EXCEPT ![s] = NoInst]
    /\ call' = [s |-> s, op |-> "session_end", pk |-> NoPk, rows |-> Cardinality({k \in LockKeys : held[s][k] > 0}), exc |-> "none"]
    /\ UNCHANGED <<now, tasks, wins>>
    /\ UNCHANGED sideVars

\* ------------------------------------------------------ state transitions
\* Fault variants: the filter without its state condition, and without its pk.
RunningFilterAnyState(pk) == {t \in TaskIds : t = pk}
RunningFilterAnyPk(pk) == {t \in TaskIds : tasks[t].state = WAITING}

\* Task.objects.filter(pk=self.pk, state=TASK_STATES.WAITING)
RunningFilter(pk) == {t \in TaskIds : t = pk /\ tasks[t].state = WAITING}

\* Fault variant: the filter of set_running used for set_failed.
FailedFilterWaitingOnly(pk) == {t \in TaskIds : t = pk /\ tasks[t].state = WAITING}

\* Fault variants: the filters without .exclude(state__in=TASK_FINAL_STATES).
CompletedFilterAnyState(pk) == {t \in TaskIds : t = pk}
FailedFilterAnyState(pk) == {t \in TaskIds : t = pk}

\* Task.objects.filter(pk=self.pk).exclude(state__in=TASK_FINAL_STATES)
CompletedFilter(pk) == {t \in TaskIds : t = pk /\ tasks[t].state \notin TASK_FINAL_STATES}

\* Task.objects.filter(pk=self.pk).exclude(state__in=TASK_FINAL_STATES)
FailedFilter(pk) == {t \in TaskIds : t = pk /\ tasks[t].state \notin TASK_FINAL_STATES}

\* The history of matched updates, capped so that it stays finite.
Won(matched, kind) == [t \in TaskIds |-> IF t \in matched THEN [wins[t] EXCEPT ![kind] = IF @ < 2 THEN @ + 1 ELSE @] ELSE wins[t]]

\* The fields of a row that no update() of the state transitions names.
Frame(row) == [name |-> row.name, args |-> row.args, kwargs |-> row.kwargs, reserved_resources_record |-> row.reserved_resources_record, worker |-> row.worker, parent_task |-> row.parent_task, task_group |-> row.task_group]

\* Instance i carries values for those fields that its row does not have.
Dirty(i) == i.pk \in TaskIds /\ Frame(i.row) # Frame(tasks[i.pk])

\* The values a caller assigns to those fields of its instance.
Edited(row) == [row EXCEPT !.name = "edited", !.args = <<>>, !.kwargs = [mirror |-> ~row.kwargs.mirror], !.reserved_resources_record = <<"z">>, !.worker = 2, !.parent_task = UuidB, !.task_group = 2]

\* task.name = ..., task.reserved_resources_record = ..., and so on for each
\* of those fields: assignments to the instance in memory, not saved.
TaskSetAttrs(s) ==
    /\ inst[s].pk # NoPk
    /\ inst[s].row # Edited(inst[s].row)
    /\ inst' = [inst EXCEPT ![s].row = Edited(@)]
    /\ UNCHANGED <<now, tasks, held, call, wins>>
    /\ UNCHANGED sideVars

\* Fault variant: the instance left as it was, with no refresh.
refresh_from_db_skipped(table, i) == i

\* self.refresh_from_db() on instance i against the table: every field is
\* loaded again from the row of i.pk, and what the instance carried is lost;
\* self.lock is no field and stays. DoesNotExist when the row is gone.
refresh_from_db(table, i) == IF i.pk \in DOMAIN table THEN [i EXCEPT !.row = table[i.pk]] ELSE i

RefreshError(table, i) == IF i.pk \in DOMAIN table THEN "none" ELSE "DoesNotExist"

\* Fault variants: update() calls that leave out the timestamp.
set_running_state_only(s) ==
    /\ inst[s].pk # NoPk
    /\ LET matched == RunningFilter(inst[s].pk)
           updated == [t \in TaskIds |-> IF t \in matched THEN [tasks[t] EXCEPT !.state = RUNNING] ELSE tasks[t]]
       IN  /\ tasks' = updated
           /\ inst' = [inst EXCEPT ![s] = refresh_from_db(updated, @)]
           /\ call' = [s |-> s, op |-> "set_running", pk |-> inst[s].pk, rows |-> Cardinality(matched), exc |-> RefreshError(updated, inst[s]), dirty |-> Dirty(inst[s])]
           /\ wins' = Won(matched, "run")
    /\ UNCHANGED <<now, held>>
    /\ UNCHANGED sideVars

set_completed_state_only(s) ==
    /\ inst[s].pk # NoPk
    /\ LET matched == CompletedFilter(inst[s].pk)
           updated == [t \in TaskIds |-> IF t \in matched THEN [tasks[t] EXCEPT !.state = COMPLETED] ELSE tasks[t]]
       IN  /\ tasks' = updated
           /\ inst' = [inst EXCEPT ![s] = refresh_from_db(updated, @)]
           /\ call' = [s |-> s, op |-> "set_completed", pk |-> inst[s].pk, rows |-> Cardinality(matched), exc |-> RefreshError(updated, inst[s]), dirty |-> Dirty(inst[s])]
           /\ wins' = Won(matched, "fin")
    /\ UNCHANGED <<now, held>>
    /\ UNCHANGED sideVars

\* Fault variant: the fields assigned on the instance and written with a
\* plain save(), which stores every field the instance carries.
set_running_by_save(s) ==
    /\ inst[s].pk # NoPk
    /\ inst[s].pk \in TaskIds
    /\ LET matched == RunningFilter(inst[s].pk)
           updated == [t \in TaskIds |-> IF t \in matched THEN [inst[s].row EXCEPT !.state = RUNNING, !.started_at = now] ELSE tasks[t]]
       IN  /\ tasks' = updated
           /\ inst' = [inst EXCEPT ![s] = refresh_from_db(updated, @)]
           /\ call' = [s |-> s, op |-> "set_running", pk |-> inst[s].pk, rows |-> Cardinality(matched), exc |-> RefreshError(updated, inst[s]), dirty |-> Dirty(inst[s])]
           /\ wins' = Won(matched, "run")
    /\ UNCHANGED <<now, held>>
    /\ UNCHANGED sideVars

set_running(s) ==
    /\ inst[s].pk # NoPk
    /\ LET matched == RunningFilter(inst[s].pk)
           updated == [t \in TaskIds |-> IF t \in matched THEN [tasks[t] EXCEPT !.state = RUNNING, !.started_at = now] ELSE tasks[t]]
       IN  /\ tasks' = updated
           /\ inst' = [inst EXCEPT ![s] = refresh_from_db(updated, @)]
           /\ call' = [s |-> s, op |-> "set_running", pk |-> inst[s].pk, rows |-> Cardinality(matched), exc |-> RefreshError(updated, inst[s]), dirty |-> Dirty(inst[s])]
           /\ wins' = Won(matched, "run")
    /\ UNCHANGED <<now, held>>
    /\ UNCHANGED sideVars

set_completed(s) ==
    /\ inst[s].pk # NoPk
    /\ LET matched == CompletedFilter(inst[s].pk)
           updated == [t \in TaskIds |-> IF t \in matched THEN [tasks[t] EXCEPT !.state = COMPLETED, !.finished_at = now] ELSE tasks[t]]
       IN  /\ tasks' = updated
           /\ inst' = [inst EXCEPT ![s] = refresh_from_db(updated, @)]
           /\ call' = [s |-> s, op |-> "set_completed", pk |-> inst[s].pk, rows |-> Cardinality(matched), exc |-> RefreshError(updated, inst[s]), dirty |-> Dirty(inst[s])]
           /\ wins' = Won(matched, "fin")
    /\ UNCHANGED <<now, held>>
    /\ UNCHANGED sideVars

\* Fault variant: the error saved by an update of its own, before the
\* conditional update of the state.
set_failed_error_apart(s, err) ==
    /\ inst[s].pk # NoPk
    /\ LET matched == FailedFilter(inst[s].pk)
           rows == Cardinality(matched)
           updated == [t \in TaskIds |-> IF t \in matched THEN [tasks[t] EXCEPT !.state = FAILED, !.finished_at = now, !.error = err] ELSE IF t = inst[s].pk THEN [tasks[t] EXCEPT !.error = err] ELSE tasks[t]]
       IN  /\ tasks' = updated
           /\ inst' = IF rows # 1 THEN inst ELSE [inst EXCEPT ![s] = refresh_from_db(updated, @)]
           /\ call' = [s |-> s, op |-> "set_failed", pk |-> inst[s].pk, rows |-> rows, exc |-> IF rows # 1 THEN "RuntimeError" ELSE RefreshError(updated, inst[s]), dirty |-> Dirty(inst[s])]
           /\ wins' = Won(matched, "fin")
    /\ UNCHANGED <<now, held>>
    /\ UNCHANGED sideVars

set_failed(s, err) ==
    /\ inst[s].pk # NoPk
    /\ LET matched == FailedFilter(inst[s].pk)
           rows == Cardinality(matched)
           updated == [t \in TaskIds |-> IF t \in matched THEN [tasks[t] EXCEPT !.state = FAILED, !.finished_at = now, !.error = err] ELSE tasks[t]]
       IN  /\ tasks' = updated
           /\ inst' = IF rows # 1 THEN inst ELSE [inst EXCEPT ![s] = refresh_from_db(updated, @)]
           /\ call' = [s |-> s, op |-> "set_failed", pk |-> inst[s].pk, rows |-> rows, exc |-> IF rows # 1 THEN "RuntimeError" ELSE RefreshError(updated, inst[s]), dirty |-> Dirty(inst[s])]
           /\ wins' = Won(matched, "fin")
    /\ UNCHANGED <<now, held>>
    /\ UNCHANGED sideVars

\* A cancellation request: a separate writer, running|waiting -> canceled.
Cancel(t) ==
    /\ tasks[t].state \in {WAITING, RUNNING}
    /\ tasks' = [tasks EXCEPT ![t].state = CANCELED, ![t].finished_at = now]
    /\ wins' = Won({t}, "fin")
    /\ UNCHANGED <<now, held, inst, call>>
    /\ UNCHANGED sideVars

\* Time passes, up to the horizon of the specification.
TickTo(limit) ==
    /\ now < limit
    /\ now' = now + 1
    /\ UNCHANGED <<tasks, held, inst, call, wins>>
    /\ UNCHANGED sideVars

Tick == TickTo(MaxTime)

\* --------------------------------------------------------------- workers
\* The database session of the worker process named p.
SessionOf(p) == IF p = "worker1@host" THEN 1 ELSE 2

StoredWorkers == {w \in DOMAIN workers : workers[w].stored}

\* Fault variant: last_heartbeat__gt in place of last_heartbeat__gte.
online_workers_gt == {w \in StoredWorkers : workers[w].last_heartbeat > now - WORKER_TTL}

\* WorkerManager.online_workers(): last_heartbeat__gte = now - WORKER_TTL
online_workers == {w \in StoredWorkers : workers[w].last_heartbeat >= now - WORKER_TTL}

\* WorkerManager.missing_workers(age): last_heartbeat__lt = now - age
missing_workers(age) == {w \in StoredWorkers : workers[w].last_heartbeat < now - age}

\* Fault variants: the comparison made strict, the threshold one tick too old.
online_strict(w) == w.last_heartbeat > now - WORKER_TTL
missing_off_by_one(w) == w.last_heartbeat < now - WORKER_TTL - 1

\* Worker.online and Worker.missing, read from the instance in memory.
online(w) == w.last_heartbeat >= now - WORKER_TTL
missing(w) == w.last_heartbeat < now - WORKER_TTL

\* Worker(name=p) in the worker process named p: an instance that was never saved.
WorkerNew(p) ==
    /\ winst' = [winst EXCEPT ![p] = [pk |-> 0, name |-> p, last_heartbeat |-> NullTime]]
    /\ call' = [s |-> SessionOf(p), op |-> "Worker", pk |-> 0, rows |-> 0, exc |-> "none"]
    /\ UNCHANGED <<now, workers>>
    /\ UNCHANGED taskVars

\* Worker.objects.get(pk=w): a fresh copy of a stored row.
WorkerGet(p, w) ==
    /\ w \in StoredWorkers
    /\ winst' = [winst EXCEPT ![p] = [pk |-> w, name |-> workers[w].name, last_heartbeat |-> workers[w].last_heartbeat]]
    /\ call' = [s |-> SessionOf(p), op |-> "get", pk |-> w, rows |-> 1, exc |-> "none"]
    /\ UNCHANGED <<now, workers>>
    /\ UNCHANGED taskVars

\* worker.name = n, not saved.
WorkerSetName(p, n) ==
    /\ winst[p] # NoWorker
    /\ winst[p].name # n
    /\ winst' = [winst EXCEPT ![p].name = n]
    /\ call' = [s |-> SessionOf(p), op |-> "setattr", pk |-> winst[p].pk, rows |-> 0, exc |-> "none"]
    /\ UNCHANGED <<now, workers>>
    /\ UNCHANGED taskVars

\* Fault variant: the column written from the instance, without auto_now.
SavedHeartbeatNoAutoNow(table, w) ==
    IF w.pk \in DOMAIN table /\ table[w.pk].stored
    THEN [table |-> [table EXCEPT ![w.pk].last_heartbeat = w.last_heartbeat], instance |-> w, rows |-> 1]
    ELSE [table |-> table, instance |-> w, rows |-> 0]

\* Fault variant: a plain save(), which writes every field of the instance.
SavedHeartbeatAllFields(table, w) ==
    IF w.pk \in DOMAIN table /\ table[w.pk].stored
    THEN [table |-> [table EXCEPT ![w.pk].last_heartbeat = now, ![w.pk].name = w.name], instance |-> [w EXCEPT !.last_heartbeat = now], rows |-> 1]
    ELSE [table |-> table, instance |-> [w EXCEPT !.last_heartbeat = now], rows |-> 0]

\* self.save(update_fields=["last_heartbeat"]) on instance w against the table:
\* auto_now puts now() into the instance, and one UPDATE of that column alone
\* is sent for the row of w.pk; a save with update_fields never inserts.
SavedHeartbeat(table, w) ==
    IF w.pk \in DOMAIN table /\ table[w.pk].stored
    THEN [table |-> [table EXCEPT ![w.pk].last_heartbeat = now], instance |-> [w EXCEPT !.last_heartbeat = now], rows |-> 1]
    ELSE [table |-> table, instance |-> [w EXCEPT !.last_heartbeat = now], rows |-> 0]

\* The exception of a save with update_fields that matched no row: ValueError
\* for an instance that was never saved, DatabaseError when its row is gone.
SaveError(w) == IF w.pk = 0 THEN "ValueError" ELSE "DatabaseError"

save_heartbeat(p) ==
    /\ winst[p] # NoWorker
    /\ LET saved == SavedHeartbeat(workers, winst[p])
       IN  /\ workers' = saved.table
           /\ winst' = [winst EXCEPT ![p] = saved.instance]
           /\ call' = [s |-> SessionOf(p), op |-> "save_heartbeat", pk |-> winst[p].pk, rows |-> saved.rows, exc |-> IF saved.rows = 1 THEN "none" ELSE SaveError(winst[p])]
    /\ UNCHANGED now
    /\ UNCHANGED taskVars

\* Worker.objects.get_or_create(name=n): the stored row of that name, or a new
\* row whose last_heartbeat auto_now sets.
GotOrCreated(n) ==
    IF \E w \in StoredWorkers : workers[w].name = n
    THEN LET w == CHOOSE x \in StoredWorkers : workers[x].name = n
         IN  [table |-> workers, instance |-> [pk |-> w, name |-> n, last_heartbeat |-> workers[w].last_heartbeat], created |-> FALSE]
    ELSE [table |-> Append(workers, [stored |-> TRUE, name |-> n, last_heartbeat |-> now]), instance |-> [pk |-> Len(workers) + 1, name |-> n, last_heartbeat |-> now], created |-> TRUE]

\* The heartbeat of the worker process named n: get_or_create(name=n), then
\* save_heartbeat on the instance it returned.
heartbeat(n) ==
    /\ LET got == GotOrCreated(n)
           saved == SavedHeartbeat(got.table, got.instance)
       IN  /\ got.created => Len(workers) < MaxWorkers
           /\ workers' = saved.table
           /\ winst' = [winst EXCEPT ![n] = saved.instance]
           /\ call' = [s |-> SessionOf(n), op |-> "heartbeat", pk |-> got.instance.pk, rows |-> IF got.created THEN 0 ELSE 1, exc |-> "none"]
    /\ UNCHANGED now
    /\ UNCHANGED taskVars

\* ------------------------------------------------------------------ roles
\* name.startswith(prefix)
StartsWith(name, prefix) == Len(prefix) <= Len(name) /\ SubSeq(name, 1, Len(prefix)) = prefix

\* A dict is the sequence of its entries [name, role] in insertion order.
Keys(desired_roles) == {desired_roles[k].name : k \in DOMAIN desired_roles}

\* The values of desired_roles: a list of permissions, a dict with
\* "permissions" and maybe "description", or something else.
ListOf(perms) == [form |-> "list", description |-> NoDescription, permissions |-> perms]
DictOf(description, perms) == [form |-> "dict", description |-> description, permissions |-> perms]
NeitherListNorDict == [form |-> "str", description |-> NoDescription, permissions |-> <<>>]

\* Role.objects.filter(name__startswith=role_prefix, locked=True).exclude(name__in=desired_roles.keys())
ObsoleteRoles(table, role_prefix, desired_roles) == {n \in DOMAIN table : table[n].stored /\ table[n].locked /\ StartsWith(n, role_prefix) /\ n \notin Keys(desired_roles)}

\* Fault variant: a role that exists is left as it is.
UpsertedRoleCreateOnly(table, name, role) ==
    IF table[name].stored THEN table
    ELSE [table EXCEPT ![name] = [stored |-> TRUE, locked |-> TRUE, description |-> IF role.form = "dict" THEN role.description ELSE NoDescription, permissions |-> {role.permissions[i] : i \in DOMAIN role.permissions}]]

\* get_or_create(name=name, locked=True), role.description = description,
\* role.save(), role.permissions.set(permissions): description is
\* desired_role.get("description") of a dict and None of a list.
UpsertedRole(table, name, role) ==
    [table EXCEPT ![name] = [stored |-> TRUE, locked |-> TRUE, description |-> IF role.form = "dict" THEN role.description ELSE NoDescription, permissions |-> {role.permissions[i] : i \in DOMAIN role.permissions}]]

\* The loop over desired_roles.items() from entry k on. It stops at the first
\* entry that raises, with the entries before it already written:
\* RuntimeError for a role that is neither dict nor list, DoesNotExist from
\* _get_permission, IntegrityError from get_or_create when the name (unique)
\* belongs to a role that is not locked.
RECURSIVE RolesUpserted(_, _, _)
RolesUpserted(table, desired_roles, k) ==
    IF k > Len(desired_roles) THEN [table |-> table, exc |-> "none"]
    ELSE LET name == desired_roles[k].name
             role == desired_roles[k].role
         IN  IF role.form \notin {"dict", "list"} THEN [table |-> table, exc |-> "RuntimeError"]
             ELSE IF \E i \in DOMAIN role.permissions : role.permissions[i] \notin Permissions THEN [table |-> table, exc |-> "DoesNotExist"]
             ELSE IF table[name].stored /\ ~table[name].locked THEN [table |-> table, exc |-> "IntegrityError"]
             ELSE RolesUpserted(UpsertedRole(table, name, role), desired_roles, k + 1)

\* The Role table adjust_roles leaves, and the exception it ends with.
Adjusted(table, role_prefix, desired_roles) ==
    IF \E k \in DOMAIN desired_roles : ~StartsWith(desired_roles[k].name, role_prefix)
    THEN [table |-> table, exc |-> "AssertionError"]
    ELSE RolesUpserted([n \in DOMAIN table |-> IF n \in ObsoleteRoles(table, role_prefix, desired_roles) THEN NoRole ELSE table[n]], desired_roles, 1)

\* adjust_roles(apps, role_prefix, desired_roles) with the Role and
\* Permission models in the registry; rows counts the obsolete roles.
adjust_roles(role_prefix, desired_roles) ==
    /\ LET adjusted == Adjusted(roles, role_prefix, desired_roles)
       IN  /\ roles' = adjusted.table
           /\ call' = [s |-> 0, op |-> "adjust_roles", pk |-> NoPk, rows |-> Cardinality(ObsoleteRoles(roles, role_prefix, desired_roles)), exc |-> adjusted.exc, role_prefix |-> role_prefix, desired_roles |-> desired_roles]
    /\ UNCHANGED <<now, tasks, held, inst, wins, workers, winst, groups, ginst>>

\* dict.update: the value of a key that is there is replaced in place, a new
\* key is added at the end.
RECURSIVE DictUpdated(_, _, _)
DictUpdated(d, other, k) ==
    IF k > Len(other) THEN d
    ELSE DictUpdated(IF other[k].name \in Keys(d) THEN [i \in DOMAIN d |-> IF d[i].name = other[k].name THEN other[k] ELSE d[i]] ELSE Append(d, other[k]), other, k + 1)

\* The LOCKED_ROLES of the viewsets from number k on, collected into d; a
\* viewset without LOCKED_ROLES (None, or {}) adds nothing.
RECURSIVE Collected(_, _, _)
Collected(d, viewsets, k) == IF k > Len(viewsets) THEN d ELSE Collected(DictUpdated(d, viewsets[k], 1), viewsets, k + 1)

\* The plugins (senders of post_migrate): their label and the LOCKED_ROLES of
\* their viewsets. Two releases of core, a plugin named file, and a plugin
\* whose viewset declares a role under another plugin's prefix.
Plugins == {
    [label |-> "core", named_viewsets |-> << <<[name |-> <<"core", ".", "viewer">>, role |-> ListOf(<<"core.view_task">>)]>>, <<>>,
                                            <<[name |-> <<"core", ".", "viewer">>, role |-> DictOf("read only", <<"core.view_task", "core.change_task", "core.view_task">>)], [name |-> <<"core", ".", "owner">>, role |-> DictOf(NoDescription, <<"core.change_task">>)]>> >>],
    [label |-> "core", named_viewsets |-> << <<[name |-> <<"core", ".", "owner">>, role |-> ListOf(<<"core.view_task">>)]>> >>],
    [label |-> "file", named_viewsets |-> << <<[name |-> <<"file", ".", "viewer">>, role |-> ListOf(<<"core.view_task">>)]>> >>],
    [label |-> "file", named_viewsets |-> << <<[name |-> <<"core", ".", "viewer">>, role |-> ListOf(<<>>)]>> >>]}

_populate_roles(sender) == adjust_roles(<<sender.label, ".">>, Collected(<<>>, sender.named_viewsets, 1))

\* What callers pass to adjust_roles directly: nothing, one role, a role
\* that is no list and no dict after a good one, an unknown permission after
\* a good role, and the name of the user's role.
RolePrefixes == {<<"core", ".">>, <<"file", ".">>}
DesiredRoles == {
    <<>>,
    <<[name |-> <<"core", ".", "viewer">>, role |-> DictOf("read only", <<"core.view_task">>)]>>,
    <<[name |-> <<"core", ".", "owner">>, role |-> ListOf(<<"core.change_task">>)], [name |-> <<"core", ".", "viewer">>, role |-> NeitherListNorDict]>>,
    <<[name |-> <<"core", ".", "viewer">>, role |-> ListOf(<<"core.change_task">>)], [name |-> <<"core", ".", "owner">>, role |-> ListOf(<<"core.delete_task">>)]>>,
    <<[name |-> <<"core", ".", "custom">>, role |-> ListOf(<<"core.view_task">>)]>>}

NextRoles ==
    \/ \E role_prefix \in RolePrefixes, desired_roles \in DesiredRoles : adjust_roles(role_prefix, desired_roles)
    \/ \E sender \in Plugins : _populate_roles(sender)

NextLock ==
    \/ \E s \in Sessions, t \in TaskIds : TaskGet(s, t)
    \/ \E s \in Sessions : Task__enter__(s)
    \/ \E s \in Sessions : inst[s].lock # NoLock /\ Task__exit__(s, "none")
    \/ \E s \in Sessions : SessionEnd(s)

\* with task: blocks whose body may raise, and __exit__ called on any instance.
NextWith ==
    \/ \E s \in Sessions, t \in TaskIds : TaskGet(s, t)
    \/ \E s \in Sessions : Task__enter__(s)
    \/ \E s \in Sessions, exc_type \in BodyOutcomes : Task__exit__(s, exc_type)
    \/ \E s \in Sessions : SessionEnd(s)

NextTask ==
    \/ \E s \in Sessions, t \in TaskIds : TaskGet(s, t)
    \/ \E s \in Sessions : set_running(s)
    \/ \E s \in Sessions : set_completed(s)
    \/ \E s \in Sessions, err \in Errors : set_failed(s, err)
    \/ \E t \in TaskIds : Cancel(t)

\* The owner of a task works on it inside a with block, one task at a time,
\* while other sessions and the canceler write to the same row.
NextOwner ==
    \/ \E s \in Sessions, t \in TaskIds : TaskGet(s, t)
    \/ \E s \in Sessions : held[s] = [k \in LockKeys |-> 0] /\ Task__enter__(s)
    \/ \E s \in Sessions : inst[s].lock # NoLock /\ Task__exit__(s, "none")
    \/ \E s \in Sessions : set_running(s)
    \/ \E s \in Sessions : set_completed(s)
    \/ \E s \in Sessions, err \in Errors : set_failed(s, err)
    \/ \E t \in TaskIds : Cancel(t)

\* The row of one task and the instances of it in memory, over time.
NextRow ==
    \/ \E s \in Sessions, t \in TaskIds : TaskGet(s, t)
    \/ \E s \in Sessions : set_running(s)
    \/ \E s \in Sessions : set_completed(s)
    \/ \E s \in Sessions, err \in Errors : set_failed(s, err)
    \/ \E t \in TaskIds : Cancel(t)
    \/ Tick

\* The row of one task and instances of it whose fields the callers assign to.
NextEdit ==
    \/ \E s \in Sessions, t \in TaskIds : TaskGet(s, t)
    \/ \E s \in Sessions : TaskSetAttrs(s)
    \/ \E s \in Sessions : set_running(s)
    \/ \E s \in Sessions : set_completed(s)
    \/ \E s \in Sessions, err \in Errors : set_failed(s, err)
    \/ \E t \in TaskIds : Cancel(t)

\* ----------------------------------------------------------- task groups
StoredGroups == {g \in GroupIds : groups[g].stored}

\* task_group.tasks: the tasks whose task_group is g.
TasksIn(g) == {t \in TaskIds : tasks[t].task_group = g}

\* TaskGroup.objects.get(pk=g): a fresh copy of a stored row.
GroupGet(s, g) ==
    /\ g \in StoredGroups
    /\ ginst' = [ginst EXCEPT ![s] = [pk |-> g, description |-> groups[g].description, all_tasks_dispatched |-> groups[g].all_tasks_dispatched]]
    /\ call' = [s |-> s, op |-> "get", pk |-> g, rows |-> 1, exc |-> "none"]
    /\ UNCHANGED <<tasks, groups>>
    /\ UNCHANGED nonGroupVars

\* task_group.description = d, not saved.
GroupSetDescription(s, d) ==
    /\ ginst[s] # NoGroup
    /\ ginst[s].description # d
    /\ ginst' = [ginst EXCEPT ![s].description = d]
    /\ call' = [s |-> s, op |-> "setattr", pk |-> ginst[s].pk, rows |-> 0, exc |-> "none"]
    /\ UNCHANGED <<tasks, groups>>
    /\ UNCHANGED nonGroupVars

\* Fault variant: the flag flipped instead of set.
FinishedByToggle(table, g) ==
    LET i == [g EXCEPT !.all_tasks_dispatched = ~g.all_tasks_dispatched]
    IN  [table |-> [table EXCEPT ![g.pk] = [stored |-> TRUE, description |-> i.description, all_tasks_dispatched |-> i.all_tasks_dispatched]], instance |-> i, rows |-> IF table[g.pk].stored THEN 1 ELSE 0]

\* self.all_tasks_dispatched = True; self.save() on instance g against the
\* table: save() writes every field of the instance to the row of g.pk, and
\* inserts the row when the UPDATE matches none.
Finished(table, g) ==
    LET i == [g EXCEPT !.all_tasks_dispatched = TRUE]
    IN  [table |-> [table EXCEPT ![g.pk] = [stored |-> TRUE, description |-> i.description, all_tasks_dispatched |-> i.all_tasks_dispatched]], instance |-> i, rows |-> IF table[g.pk].stored THEN 1 ELSE 0]

\* TaskGroup.finish(); again records that the session's previous call was
\* finish() on the same instance.
finish(s) ==
    /\ ginst[s] # NoGroup
    /\ LET saved == Finished(groups, ginst[s])
       IN  /\ groups' = saved.table
           /\ ginst' = [ginst EXCEPT ![s] = saved.instance]
           /\ call' = [s |-> s, op |-> "finish", pk |-> ginst[s].pk, rows |-> saved.rows, exc |-> "none", again |-> (call.op = "finish" /\ call.s = s /\ call.pk = ginst[s].pk)]
    /\ UNCHANGED tasks
    /\ UNCHANGED nonGroupVars

\* Fault variant: on_delete=CASCADE, the tasks of the group go with it.
GroupDeleteCascade(g) ==
    /\ g \in StoredGroups
    /\ groups' = [groups EXCEPT ![g].stored = FALSE]
    /\ tasks' = [t \in TaskIds \ TasksIn(g) |-> tasks[t]]
    /\ call' = [s |-> 0, op |-> "delete_group", pk |-> g, rows |-> Cardinality(TasksIn(g)), exc |-> "none"]
    /\ UNCHANGED ginst
    /\ UNCHANGED nonGroupVars

\* task_group.delete(): on_delete=SET_NULL nulls task_group of the tasks in
\* the group, then the row is deleted.
GroupDelete(g) ==
    /\ g \in StoredGroups
    /\ groups' = [groups EXCEPT ![g].stored = FALSE]
    /\ tasks' = [t \in TaskIds |-> IF t \in TasksIn(g) THEN [tasks[t] EXCEPT !.task_group = NullRef] ELSE tasks[t]]
    /\ call' = [s |-> 0, op |-> "delete_group", pk |-> g, rows |-> Cardinality(TasksIn(g)), exc |-> "none"]
    /\ UNCHANGED ginst
    /\ UNCHANGED nonGroupVars

\* ------------------------------------------------------------- deletion
\* worker.tasks: the tasks whose worker is w.
TasksOf(w) == {t \in TaskIds : tasks[t].worker = w}

\* task.child_tasks: the tasks whose parent_task is t.
ChildTasks(t) == {u \in TaskIds : tasks[u].parent_task = t}

\* worker.delete(): on_delete=SET_NULL nulls worker of the tasks assigned to
\* it, then the row is deleted.
WorkerDelete(w) ==
    /\ w \in StoredWorkers
    /\ workers' = [workers EXCEPT ![w].stored = FALSE]
    /\ tasks' = [t \in TaskIds |-> IF t \in TasksOf(w) THEN [tasks[t] EXCEPT !.worker = NullRef] ELSE tasks[t]]
    /\ call' = [s |-> 0, op |-> "delete_worker", pk |-> w, rows |-> Cardinality(TasksOf(w)), exc |-> "none"]
    /\ UNCHANGED <<now, held, inst, wins, winst, groups, ginst, roles>>

\* task.delete(): on_delete=SET_NULL nulls parent_task of the tasks it
\* spawned, then the row is deleted.
TaskDelete(t) ==
    /\ tasks' = [u \in TaskIds \ {t} |-> IF u \in ChildTasks(t) THEN [tasks[u] EXCEPT !.parent_task = NoPk] ELSE tasks[u]]
    /\ call' = [s |-> 0, op |-> "delete_task", pk |-> t, rows |-> Cardinality(ChildTasks(t)), exc |-> "none"]
    /\ UNCHANGED <<now, held, inst, wins, workers, winst, groups, ginst, roles>>

NextRefs ==
    \/ \E w \in DOMAIN workers : WorkerDelete(w)
    \/ \E g \in GroupIds : GroupDelete(g)
    \/ \E t \in TaskIds : TaskDelete(t)

\* ------------------------------------------------- worker crash, reaper
\* The row of the worker named p.
WorkerPk(p) == CHOOSE w \in DOMAIN workers : workers[w].name = p

\* The process named p is up: it holds its Worker instance in memory.
Alive(p) == winst[p] # NoWorker

\* The heartbeat of a process that is up, early enough for the clock to outrun it.
Beat(p) ==
    /\ Alive(p)
    /\ now + WORKER_TTL < MaxWorkerTime
    /\ heartbeat(p)

\* The process named p dies: its memory is gone, its connection ends and
\* PostgreSQL drops the advisory locks of its session; it sends no heartbeat
\* any more.
Crash(p) ==
    /\ Alive(p)
    /\ winst' = [winst EXCEPT ![p] = NoWorker]
    /\ held' = [held EXCEPT ![SessionOf(p)] = [k \in LockKeys |-> 0]]
    /\ inst' = [inst EXCEPT ![SessionOf(p)] = NoInst]
    /\ call' = [s |-> SessionOf(p), op |-> "session_end", pk |-> NoPk, rows |-> Cardinality({k \in LockKeys : held[SessionOf(p)][k] > 0}), exc |-> "none"]
    /\ UNCHANGED <<now, tasks, wins, workers, groups, ginst, roles>>

\* The error payload the reaper records.
WorkerUnavailable == [description |-> "worker unavailable", traceback |-> "none"]

\* The reaper finds task t not final, its worker missing and its advisory lock
\* held by no session, and fails it.
Reap(t) ==
    /\ tasks[t].state \notin TASK_FINAL_STATES
    /\ tasks[t].worker \in missing_workers(WORKER_TTL)
    /\ Holders(_uuid_to_advisory_lock(t)) = {}
    /\ LET matched == FailedFilter(t)
           rows == Cardinality(matched)
       IN  /\ tasks' = [u \in TaskIds |-> IF u \in matched THEN [tasks[u] EXCEPT !.state = FAILED, !.finished_at = now, !.error = WorkerUnavailable] ELSE tasks[u]]
           /\ call' = [s |-> 0, op |-> "reap", pk |-> t, rows |-> rows, exc |-> IF rows # 1 THEN "RuntimeError" ELSE "none"]
           /\ wins' = Won(matched, "fin")
    /\ UNCHANGED <<now, held, inst>>
    /\ UNCHANGED sideVars

\* The worker processes that are up run the tasks assigned to them.
NextReaper ==
    \/ \E p \in WorkerNames : Beat(p)
    \/ \E p \in WorkerNames : Crash(p)
    \/ \E p \in WorkerNames, t \in TaskIds : Alive(p) /\ tasks[t].worker = WorkerPk(p) /\ TaskGet(SessionOf(p), t)
    \/ \E p \in WorkerNames : Alive(p) /\ held[SessionOf(p)] = [k \in LockKeys |-> 0] /\ Task__enter__(SessionOf(p))
    \/ \E p \in WorkerNames : Alive(p) /\ set_running(SessionOf(p))
    \/ \E p \in WorkerNames : Alive(p) /\ set_completed(SessionOf(p))
    \/ \E p \in WorkerNames, err \in Errors : Alive(p) /\ set_failed(SessionOf(p), err)
    \/ \E p \in WorkerNames, exc_type \in BodyOutcomes : Alive(p) /\ Task__exit__(SessionOf(p), exc_type)
    \/ \E t \in TaskIds : Cancel(t)
    \/ \E t \in TaskIds : Reap(t)
    \/ TickTo(MaxWorkerTime)

NextGroup ==
    \/ \E s \in Sessions, g \in GroupIds : GroupGet(s, g)
    \/ \E s \in Sessions, d \in Descriptions : GroupSetDescription(s, d)
    \/ \E s \in Sessions : finish(s)
    \/ \E g \in GroupIds : GroupDelete(g)

NextWorker ==
    \/ \E n \in WorkerNames : heartbeat(n)
    \/ \E p \in WorkerNames : WorkerNew(p)
    \/ \E p \in WorkerNames, w \in DOMAIN workers : WorkerGet(p, w)
    \/ \E p \in WorkerNames, n \in InstanceNames : WorkerSetName(p, n)
    \/ \E p \in WorkerNames : save_heartbeat(p)
    \/ TickTo(MaxWorkerTime)

Next == NextLock \/ NextWith \/ NextTask \/ NextOwner \/ NextRow \/ NextEdit \/ NextRoles \/ NextWorker \/ NextGroup \/ NextRefs \/ NextReaper

Spec == Init /\ [][Next]_vars

\* Sessions and advisory locks alone, over the three tasks.
SpecLock == Init /\ [][NextLock]_vars

\* with blocks over the two tasks that share a lock key, whatever their
\* bodies raise, and __exit__ also on instances that never entered; in
\* SpecLock every body returns normally and __exit__ follows an __enter__.
SpecWith == InitWith({UuidA, UuidB}) /\ [][NextWith]_vars

\* The conditional updates alone, over the two tasks that share a resource,
\* within one reading of the clock.
SpecTask == InitWith({UuidA, UuidB}) /\ [][NextTask]_vars

\* Locks and conditional updates together, over one task.
SpecOwner == InitWith({UuidA}) /\ [][NextOwner]_vars

\* The conditional updates of one task as the clock runs, called on
\* instances that may be stale.
SpecRow == InitWith({UuidA}) /\ [][NextRow]_vars

\* The conditional updates of one task, called on instances that may be
\* stale or carry unsaved assignments.
SpecEdit == InitWith({UuidA}) /\ [][NextEdit]_vars

\* Deployments alone: the roles of the plugins adjusted again and again.
SpecRoles == Init /\ [][NextRoles]_vars

\* The worker registry alone: heartbeats, instances in memory, the clock.
SpecWorker == Init /\ [][NextWorker]_vars

\* The task groups alone: instances in memory, finish(), deletion.
SpecGroup == Init /\ [][NextGroup]_vars

\* Rows a task can have reached at time 1: waiting, running, completed after
\* running, failed without having run.
RowsReached == {
    [state |-> WAITING, started_at |-> NullTime, finished_at |-> NullTime, error |-> NullError],
    [state |-> RUNNING, started_at |-> 1, finished_at |-> NullTime, error |-> NullError],
    [state |-> COMPLETED, started_at |-> 1, finished_at |-> 1, error |-> NullError],
    [state |-> FAILED, started_at |-> NullTime, finished_at |-> 1, error |-> CHOOSE e \in Errors : TRUE]}

\* The worker the dispatcher assigned each task to.
WorkerAssigned(t) == IF t = UuidC THEN 2 ELSE 1

\* A populated database: two workers, the three tasks of group 1 assigned to
\* them, each task in a state it can have reached.
InitRefs ==
    /\ now = 1
    /\ \E rows \in [AllTaskIds -> RowsReached] :
        tasks = [t \in AllTaskIds |-> [state |-> rows[t].state, started_at |-> rows[t].started_at, finished_at |-> rows[t].finished_at, error |-> rows[t].error, name |-> NameAtCreation(t), args |-> ArgsAtCreation(t), kwargs |-> KwargsAtCreation(t), reserved_resources_record |-> ReservedAtCreation(t), worker |-> WorkerAssigned(t), parent_task |-> ParentAtCreation(t), task_group |-> GroupAtCreation(t)]]
    /\ held = [s \in Sessions |-> [k \in LockKeys |-> 0]]
    /\ inst = [s \in Sessions |-> NoInst]
    /\ call = NoCall
    /\ wins = [t \in AllTaskIds |-> [run |-> 0, fin |-> 0]]
    /\ workers = <<[stored |-> TRUE, name |-> "worker1@host", last_heartbeat |-> 1], [stored |-> TRUE, name |-> "worker2@host", last_heartbeat |-> 1]>>
    /\ winst = [p \in WorkerNames |-> NoWorker]
    /\ groups = [g \in GroupIds |-> [stored |-> TRUE, description |-> "batch", all_tasks_dispatched |-> FALSE]]
    /\ ginst = [s \in Sessions |-> NoGroup]
    /\ roles = RolesAtStart

\* Deletion of workers, task groups and tasks from a populated database.
SpecRefs == InitRefs /\ [][NextRefs]_vars

\* Two worker processes are up and have sent a heartbeat; task A is assigned
\* to the first.
InitReaper ==
    /\ now = 1
    /\ tasks = [t \in {UuidA} |-> [state |-> WAITING, started_at |-> NullTime, finished_at |-> NullTime, error |-> NullError, name |-> NameAtCreation(t), args |-> ArgsAtCreation(t), kwargs |-> KwargsAtCreation(t), reserved_resources_record |-> ReservedAtCreation(t), worker |-> WorkerAssigned(t), parent_task |-> NoPk, task_group |-> GroupAtCreation(t)]]
    /\ held = [s \in Sessions |-> [k \in LockKeys |-> 0]]
    /\ inst = [s \in Sessions |-> NoInst]
    /\ call = NoCall
    /\ wins = [t \in {UuidA} |-> [run |-> 0, fin |-> 0]]
    /\ workers = <<[stored |-> TRUE, name |-> "worker1@host", last_heartbeat |-> 1], [stored |-> TRUE, name |-> "worker2@host", last_heartbeat |-> 1]>>
    /\ winst = [p \in WorkerNames |-> [pk |-> WorkerPk(p), name |-> p, last_heartbeat |-> 1]]
    /\ groups = [g \in GroupIds |-> [stored |-> TRUE, description |-> "batch", all_tasks_dispatched |-> FALSE]]
    /\ ginst = [s \in Sessions |-> NoGroup]
    /\ roles = RolesAtStart

\* Workers that run tasks and may die, and the reaper. The clock keeps
\* running and the reaper keeps scanning: a reap that stays possible happens.
SpecReaper == InitReaper /\ [][NextReaper]_vars /\ WF_vars(TickTo(MaxWorkerTime)) /\ WF_vars(Reap(UuidA))

\* ------------------------------------------------------------ properties
\* reserved_resources_record of t and u share a key.
Overlap(t, u) == \E i \in DOMAIN tasks[t].reserved_resources_record, j \in DOMAIN tasks[u].reserved_resources_record : tasks[t].reserved_resources_record[i] = tasks[u].reserved_resources_record[j]

\* The dispatcher's conflict predicate: no running task shares a key with t.
Eligible(t) == \A u \in TaskIds \ {t} : Overlap(t, u) => tasks[u].state # RUNNING

StateChanged(t) == tasks'[t].state # tasks[t].state

\* Session s has finished a call of op in this step.
Did(s, op) == call'.op = op /\ call'.s = s

MutualExclusion == \A k \in LockKeys : Cardinality(Holders(k)) <= 1

NonBlocking == \A s \in Sessions : (inst[s].pk # NoPk /\ held[s][Key(s)] < MaxHold) => ENABLED Task__enter__(s)

EnterOutcome == \A s \in Sessions : (Did(s, "__enter__") /\ Task__enter__(s)) => IF Holders(Key(s)) \subseteq {s} THEN call'.exc = "none" /\ held'[s][Key(s)] = held[s][Key(s)] + 1 ELSE call'.exc = "AdvisoryLockError" /\ held' = held

\* C1: no two sessions ever hold the advisory lock of one task; a session that
\* calls Task.__enter__ is never made to wait; the call returns with the lock
\* when no other session holds it and raises AdvisoryLockError, leaving the
\* lock table as it was, when another session does. So of N sessions calling
\* it on a free lock one acquires and the other N-1 raise.
C1_ExactlyOneAcquires == [](MutualExclusion /\ NonBlocking) /\ [][EnterOutcome]_vars

\* Every session has called __enter__ on task A; one holds the lock and the
\* last caller was refused.
C1_Witness == /\ \A s \in Sessions : inst[s].pk = UuidA /\ inst[s].lock # NoLock
              /\ Cardinality(Holders(_uuid_to_advisory_lock(UuidA))) = 1
              /\ call.op = "__enter__" /\ call.exc = "AdvisoryLockError"

\* C2: a task whose state is final (completed, failed, canceled, skipped)
\* keeps that state in every step of every writer.
C2_FinalStateNeverChanges == [][\A t \in TaskIds : tasks[t].state \in TASK_FINAL_STATES => tasks'[t].state = tasks[t].state]_vars

\* A writer has called set_running on a task that was already final.
C2_Witness == call.op = "set_running" /\ call.rows = 0 /\ tasks[call.pk].state \in TASK_FINAL_STATES

\* C3 as stated: two distinct tasks whose reserved resources overlap are never
\* both running, whatever the order of the set_running calls.
C3_Original == \A t, u \in TaskIds : (t # u /\ Overlap(t, u)) => ~(tasks[t].state = RUNNING /\ tasks[u].state = RUNNING)

\* C3 amended: set_running changes no task but its own and, called on a task
\* with which no running task shares a resource key, leaves no running task
\* sharing a key with it.
C3_EligibleStaysExclusive == [][\A s \in Sessions : (Did(s, "set_running") /\ set_running(s)) => (\A u \in TaskIds \ {inst[s].pk} : tasks'[u] = tasks[u]) /\ (Eligible(inst[s].pk) => Eligible(inst[s].pk)')]_vars

\* Task A was set running while the overlapping task B, which had run, was final.
C3_Witness == /\ call.op = "set_running" /\ call.rows = 1 /\ call.pk = UuidA
              /\ tasks[UuidA].state = RUNNING
              /\ tasks[UuidB].state \in TASK_FINAL_STATES /\ tasks[UuidB].started_at # NullTime

\* C4 as stated: set_running moves a task only from waiting to running, and
\* set_completed and set_failed move it to completed or failed only from running.
C4_Original == [][\A s \in Sessions :
    /\ (Did(s, "set_running") /\ set_running(s) /\ StateChanged(inst[s].pk)) => (tasks[inst[s].pk].state = WAITING /\ tasks'[inst[s].pk].state = RUNNING)
    /\ (Did(s, "set_completed") /\ set_completed(s) /\ StateChanged(inst[s].pk)) => (tasks[inst[s].pk].state = RUNNING /\ tasks'[inst[s].pk].state = COMPLETED)
    /\ \A err \in Errors : (Did(s, "set_failed") /\ set_failed(s, err) /\ StateChanged(inst[s].pk)) => (tasks[inst[s].pk].state = RUNNING /\ tasks'[inst[s].pk].state = FAILED)]_vars

\* C4 amended: set_running moves a task only from waiting to running;
\* set_completed and set_failed move it to completed or failed from any state
\* that is not final, running or waiting.
C4_FromAnyNonFinalState == [][\A s \in Sessions :
    /\ (Did(s, "set_running") /\ set_running(s) /\ StateChanged(inst[s].pk)) => (tasks[inst[s].pk].state = WAITING /\ tasks'[inst[s].pk].state = RUNNING)
    /\ (Did(s, "set_completed") /\ set_completed(s) /\ StateChanged(inst[s].pk)) => (tasks[inst[s].pk].state \in {WAITING, RUNNING} /\ tasks'[inst[s].pk].state = COMPLETED)
    /\ \A err \in Errors : (Did(s, "set_failed") /\ set_failed(s, err) /\ StateChanged(inst[s].pk)) => (tasks[inst[s].pk].state \in {WAITING, RUNNING} /\ tasks'[inst[s].pk].state = FAILED)]_vars

\* set_completed has completed a task that never ran.
C4_Witness == call.op = "set_completed" /\ call.rows = 1 /\ tasks[call.pk].state = COMPLETED /\ tasks[call.pk].started_at = NullTime

\* C5: when the session holding an advisory lock ends, no session holds the
\* lock any more and pg_try_advisory_lock on it is granted to every other
\* session, with no step in between.
C5_SessionEndFreesLock == [][\A s \in Sessions : (Did(s, "session_end") /\ SessionEnd(s)) => \A k \in LockKeys : held[s][k] > 0 => ((Holders(k) = {})' /\ \A s2 \in Sessions \ {s} : pg_try_advisory_lock(s2, k)')]_vars

\* A holder's session has ended, and a session that had called __enter__ for
\* the same key finds it free.
C5_Witness == /\ call.op = "session_end" /\ call.rows > 0
              /\ \E s2 \in Sessions \ {call.s} : inst[s2].lock # NoLock /\ Holders(inst[s2].lock) = {}

\* C6: set_failed on a task whose state is final matches no row, raises
\* RuntimeError and leaves every row as it was.
C6_SetFailedOnFinalRaises == [][\A s \in Sessions, err \in Errors : (Did(s, "set_failed") /\ set_failed(s, err) /\ tasks[inst[s].pk].state \in TASK_FINAL_STATES) => (call'.rows = 0 /\ call'.exc = "RuntimeError" /\ tasks' = tasks)]_vars

\* set_failed has raised on a task that ran and was then canceled.
C6_Witness == /\ call.op = "set_failed" /\ call.exc = "RuntimeError"
              /\ tasks[call.pk].state = CANCELED /\ tasks[call.pk].started_at # NullTime /\ tasks[call.pk].error = NullError

\* C7: set_completed on a task whose state is final matches no row, raises
\* nothing and leaves every row as it was.
C7_SetCompletedOnFinalWarns == [][\A s \in Sessions : (Did(s, "set_completed") /\ set_completed(s) /\ tasks[inst[s].pk].state \in TASK_FINAL_STATES) => (call'.rows = 0 /\ call'.exc = "none" /\ tasks' = tasks)]_vars

\* set_completed has returned on a task that ran and was then canceled.
C7_Witness == /\ call.op = "set_completed" /\ call.rows = 0 /\ call.exc = "none"
              /\ tasks[call.pk].state = CANCELED /\ tasks[call.pk].started_at # NullTime

WinsOnce == \A t \in TaskIds : wins[t].run <= 1 /\ wins[t].fin <= 1

UpdateOutcome == \A s \in Sessions :
    /\ (Did(s, "set_running") /\ set_running(s)) => IF tasks[inst[s].pk].state = WAITING THEN call'.rows = 1 /\ tasks'[inst[s].pk].state = RUNNING ELSE call'.rows = 0 /\ tasks' = tasks
    /\ (Did(s, "set_completed") /\ set_completed(s)) => IF tasks[inst[s].pk].state \notin TASK_FINAL_STATES THEN call'.rows = 1 /\ tasks'[inst[s].pk].state = COMPLETED ELSE call'.rows = 0 /\ tasks' = tasks
    /\ \A err \in Errors : (Did(s, "set_failed") /\ set_failed(s, err)) => IF tasks[inst[s].pk].state \notin TASK_FINAL_STATES THEN call'.rows = 1 /\ tasks'[inst[s].pk].state = FAILED ELSE call'.rows = 0 /\ tasks' = tasks

\* C8: over the life of a task at most one update to running matches it and
\* at most one update to a final state (set_completed, set_failed, cancel);
\* an update matches one row and takes effect when its condition holds, and
\* otherwise matches no row and changes no field of any task.
C8_OneWriterSucceeds == []WinsOnce /\ [][UpdateOutcome]_vars

\* Two sessions hold instances of one task; one set_running matched it and the
\* last set_running matched nothing.
C8_Witness == /\ call.op = "set_running" /\ call.rows = 0 /\ wins[call.pk].run = 1
              /\ tasks[call.pk].state = RUNNING
              /\ \E s1, s2 \in Sessions : s1 # s2 /\ inst[s1].pk = call.pk /\ inst[s2].pk = call.pk

\* C9 as stated, for the tasks no cancellation has touched: once a task has
\* left waiting, started_at is non-null exactly when its state is running,
\* completed, failed or canceled.
C9_Original == \A t \in TaskIds : tasks[t].state \notin {WAITING, CANCELED} => (tasks[t].started_at # NullTime <=> tasks[t].state \in {RUNNING, COMPLETED, FAILED, CANCELED})

\* C9 amended: started_at is non-null exactly when an update of set_running
\* has matched the task; it is null in waiting and non-null in running.
C9_StartedIffRan == \A t \in TaskIds :
    /\ tasks[t].started_at # NullTime <=> wins[t].run > 0
    /\ tasks[t].state = WAITING => tasks[t].started_at = NullTime
    /\ tasks[t].state = RUNNING => tasks[t].started_at # NullTime

\* One task has failed without having run, the other after having run.
C9_Witness == \E t, u \in TaskIds : /\ tasks[t].state = FAILED /\ tasks[t].started_at = NullTime
                                    /\ tasks[u].state = FAILED /\ tasks[u].started_at # NullTime

\* C10: finished_at is non-null exactly when the state is final.
C10_FinishedIffFinal == \A t \in TaskIds : tasks[t].finished_at # NullTime <=> tasks[t].state \in TASK_FINAL_STATES

\* One task is running, set so by the last call, and the other is completed.
C10_Witness == /\ call.op = "set_running" /\ call.rows = 1 /\ tasks[call.pk].state = RUNNING
               /\ \E u \in TaskIds : tasks[u].state = COMPLETED /\ tasks[u].finished_at # NullTime

\* C11 as stated: Task.__exit__ called by a session that does not hold the
\* advisory lock of its task raises RuntimeError and leaves every session's
\* locks as they were.
C11_Original == [][\A s \in Sessions, e \in BodyOutcomes : (Did(s, "__exit__") /\ Task__exit__(s, e) /\ held[s][Key(s)] = 0) => (call'.exc = "RuntimeError" /\ held' = held)]_vars

\* The Worker instances in memory that carry a timestamp.
Instances == {winst[p] : p \in {q \in WorkerNames : winst[q].last_heartbeat # NullTime}}

\* Row w keeps every stored field but last_heartbeat.
SameButHeartbeat(w) == workers'[w].stored = workers[w].stored /\ workers'[w].name = workers[w].name

\* C12: each save_heartbeat on a worker whose row exists changes, in the
\* Worker table, nothing but last_heartbeat of that row: no row is added or
\* removed, name keeps its stored value whatever the instance in memory
\* carries, and every other row is left as it was.
C12_HeartbeatWritesOnlyTimestamp == [][\A p \in WorkerNames : (Did(SessionOf(p), "save_heartbeat") /\ save_heartbeat(p) /\ winst[p].pk \in StoredWorkers) =>
    /\ DOMAIN workers' = DOMAIN workers
    /\ \A w \in DOMAIN workers : SameButHeartbeat(w) /\ (w # winst[p].pk => workers'[w] = workers[w])
    /\ workers'[winst[p].pk].last_heartbeat = now]_vars

\* save_heartbeat has written a later timestamp from an instance whose name
\* in memory differs from the stored one.
C12_Witness == /\ call.op = "save_heartbeat" /\ call.rows = 1 /\ now > 1
               /\ \E p \in WorkerNames : SessionOf(p) = call.s /\ winst[p].name = "unsaved" /\ workers[call.pk].name \in WorkerNames
               /\ workers[call.pk].last_heartbeat = now

C14_Original ==
    /\ \A w \in StoredWorkers : (w \in online_workers <=> now - workers[w].last_heartbeat < WORKER_TTL) /\ (w \in missing_workers(WORKER_TTL) <=> now - workers[w].last_heartbeat >= WORKER_TTL)
    /\ \A i \in Instances : (online(i) <=> now - i.last_heartbeat < WORKER_TTL) /\ (missing(i) <=> now - i.last_heartbeat >= WORKER_TTL)

\* C14 amended: a worker is online iff now - last_heartbeat <= TTL and
\* missing iff now - last_heartbeat > TTL, for the queries and for the
\* properties of an instance; a heartbeat aged exactly TTL is online.
C14_OnlineUpToTTL ==
    /\ \A w \in StoredWorkers : (w \in online_workers <=> now - workers[w].last_heartbeat <= WORKER_TTL) /\ (w \in missing_workers(WORKER_TTL) <=> now - workers[w].last_heartbeat > WORKER_TTL)
    /\ \A i \in Instances : (online(i) <=> now - i.last_heartbeat <= WORKER_TTL) /\ (missing(i) <=> now - i.last_heartbeat > WORKER_TTL)

\* One stored worker's heartbeat is aged exactly TTL and another's more, and
\* an instance in memory carries a heartbeat aged exactly TTL.
C14_Witness == /\ \E w \in online_workers : now - workers[w].last_heartbeat = WORKER_TTL
               /\ \E w \in missing_workers(WORKER_TTL) : now - workers[w].last_heartbeat > WORKER_TTL
               /\ \E i \in Instances : now - i.last_heartbeat = WORKER_TTL /\ online(i)

\* C15: a worker whose last_heartbeat is now - TTL - 1 is missing and not
\* online, and one whose last_heartbeat is now is online and not missing, by
\* the queries and by the properties of an instance.
C15_BoundaryCases ==
    /\ \A w \in StoredWorkers :
        /\ workers[w].last_heartbeat = now - WORKER_TTL - 1 => (w \in missing_workers(WORKER_TTL) /\ w \notin online_workers)
        /\ workers[w].last_heartbeat = now => (w \in online_workers /\ w \notin missing_workers(WORKER_TTL))
    /\ \A i \in Instances :
        /\ i.last_heartbeat = now - WORKER_TTL - 1 => (missing(i) /\ ~online(i))
        /\ i.last_heartbeat = now => (online(i) /\ ~missing(i))

\* One worker's heartbeat is now - TTL - 1 and another's is now, in the table
\* and in memory.
C15_Witness == /\ \E w, x \in StoredWorkers : workers[w].last_heartbeat = now - WORKER_TTL - 1 /\ workers[x].last_heartbeat = now
               /\ \E i, j \in Instances : i.last_heartbeat = now - WORKER_TTL - 1 /\ j.last_heartbeat = now

\* The stored fields of group g the claim names.
StoredGroup(g) == [all_tasks_dispatched |-> groups[g].all_tasks_dispatched, description |-> groups[g].description]

\* C16: finish() leaves the stored all_tasks_dispatched of its group true,
\* whatever the stored value and the instance's value were, and changes no
\* task and no other group; a second finish() right after the first on the
\* same instance leaves the stored group (all_tasks_dispatched, description)
\* and the set of tasks in the group as the first left them.
C16_FinishIdempotent == [][\A s \in Sessions : (Did(s, "finish") /\ finish(s)) =>
    /\ groups'[ginst[s].pk].stored /\ groups'[ginst[s].pk].all_tasks_dispatched = TRUE
    /\ tasks' = tasks
    /\ \A g \in GroupIds \ {ginst[s].pk} : groups'[g] = groups[g]
    /\ call'.again => (StoredGroup(ginst[s].pk)' = StoredGroup(ginst[s].pk) /\ TasksIn(ginst[s].pk)' = TasksIn(ginst[s].pk) /\ groups' = groups)]_vars

\* A session has called finish() twice in a row on a group of three tasks whose
\* stored flag was false before and whose description it had edited in memory.
C16_Witness == /\ call.op = "finish" /\ call.again /\ Cardinality(TasksIn(call.pk)) = 3
               /\ groups[call.pk].all_tasks_dispatched /\ groups[call.pk].description = "edited"

\* (id >> 64) XOR id, bit by bit: bit b is set iff bits b and b + 64 of id differ.
Folded(id) == {b \in 0..127 : (b \in id) # (b + 64 \in id)}

\* 128-bit ids with bits at the ends of both halves.
SampleIds == SUBSET {0, 1, 62, 63, 64, 126, 127}

\* A statement about the function alone, evaluated in the initial state.
SameFoldSameKey == (call.op = "none" /\ \A s \in Sessions : inst[s] = NoInst) => \A t, u \in SampleIds \cup AllTaskIds : (t # u /\ Folded(t) \cap LockMask = Folded(u) \cap LockMask) => _uuid_to_advisory_lock(t) = _uuid_to_advisory_lock(u)

\* Another session holds, through its instance of another task, the key of
\* the instance of session s.
HeldForOtherTask(s) == \E s2 \in Sessions \ {s} : inst[s2].pk # inst[s].pk /\ inst[s2].lock = Key(s) /\ held[s2][Key(s)] > 0

\* C17: two distinct task ids whose folded values agree on the low 63 bits
\* have the same advisory lock key; and Task.__enter__ for one task, while
\* another session holds the key through its __enter__ for a different task,
\* raises AdvisoryLockError and takes no lock.
C17_FoldedKeysCollide == []SameFoldSameKey /\ [][\A s \in Sessions : (Did(s, "__enter__") /\ Task__enter__(s) /\ HeldForOtherTask(s)) => (call'.exc = "AdvisoryLockError" /\ held' = held)]_vars

\* One session holds the lock it took for task A, and __enter__ for task B in
\* another session was refused.
C17_Witness == /\ call.op = "__enter__" /\ call.exc = "AdvisoryLockError" /\ call.pk = UuidB
               /\ \E s2 \in Sessions \ {call.s} : inst[s2].pk = UuidA /\ inst[s2].lock = _uuid_to_advisory_lock(UuidB) /\ held[s2][inst[s2].lock] > 0

\* Task t survives the step with every field but the named reference as it was.
SurvivesWithNull(t, field, nulled) == t \in DOMAIN tasks' /\ tasks'[t] = IF nulled THEN [tasks[t] EXCEPT ![field] = IF field = "parent_task" THEN NoPk ELSE NullRef] ELSE tasks[t]

\* C18: deleting a worker, a task group or a task deletes no other task: each
\* task that referenced the deleted row survives with that reference null
\* and every other field (state, timestamps, error, reserved resources, the
\* other references) as it was, and each other task is unchanged.
C18_DeleteNullsReferences == [][
    /\ \A w \in DOMAIN workers : (Did(0, "delete_worker") /\ WorkerDelete(w)) => \A t \in TaskIds : SurvivesWithNull(t, "worker", tasks[t].worker = w)
    /\ \A g \in GroupIds : (Did(0, "delete_group") /\ GroupDelete(g)) => \A t \in TaskIds : SurvivesWithNull(t, "task_group", tasks[t].task_group = g)
    /\ \A p \in TaskIds : (Did(0, "delete_task") /\ TaskDelete(p)) => \A t \in TaskIds \ {p} : SurvivesWithNull(t, "parent_task", tasks[t].parent_task = p)]_vars

\* Its worker, its group and its parent task have been deleted, and a failed
\* task is still there with its error and the three references null.
C18_Witness == /\ call.op \in {"delete_worker", "delete_group", "delete_task"}
               /\ UuidA \notin TaskIds /\ ~groups[1].stored /\ ~workers[1].stored
               /\ UuidB \in TaskIds /\ tasks[UuidB].state = FAILED /\ tasks[UuidB].error \in Errors /\ tasks[UuidB].reserved_resources_record = <<"y", "x">>
               /\ tasks[UuidB].worker = NullRef /\ tasks[UuidB].task_group = NullRef /\ tasks[UuidB].parent_task = NoPk

\* Task t is running and the process of its worker has died.
Orphaned(t) == t \in TaskIds /\ tasks[t].state = RUNNING /\ \E p \in WorkerNames : tasks[t].worker = WorkerPk(p) /\ ~Alive(p)

\* C19: a task that is running after the process of its worker has died
\* reaches a final state; and the reaper's step on a running task whose
\* worker is missing and whose lock is free makes it failed, with the
\* "worker unavailable" error and a finish time.
C19_OrphanedTaskIsReaped ==
    /\ Orphaned(UuidA) ~> (tasks[UuidA].state \in TASK_FINAL_STATES)
    /\ [][\A t \in TaskIds : (Did(0, "reap") /\ Reap(t) /\ tasks[t].state = RUNNING) => (tasks'[t].state = FAILED /\ tasks'[t].error = WorkerUnavailable /\ tasks'[t].finished_at = now /\ call'.exc = "none")]_vars

\* The reaper has failed a task that was running when its worker died.
C19_Witness == /\ call.op = "reap" /\ call.rows = 1
               /\ tasks[call.pk].state = FAILED /\ tasks[call.pk].started_at # NullTime /\ tasks[call.pk].error = WorkerUnavailable
               /\ \E p \in WorkerNames : tasks[call.pk].worker = WorkerPk(p) /\ ~Alive(p)

\* Session s is inside a with block of its Task instance: __enter__ has
\* assigned self.lock and the session holds that key.
InBlock(s) == inst[s].lock # NoLock /\ held[s][inst[s].lock] > 0

\* C20: __exit__ of a with block whose __enter__ succeeded, whatever the body
\* raised (nothing, an exception, the RuntimeError of set_failed), gives back
\* the hold taken on entry and touches no other lock, raises nothing, and
\* lets the body's exception leave the block; a session that held the key
\* once holds it no more.
C20_ExitAlwaysReleases == [][\A s \in Sessions, e \in BodyOutcomes : (Did(s, "__exit__") /\ Task__exit__(s, e) /\ InBlock(s)) =>
    /\ held' = [held EXCEPT ![s][inst[s].lock] = @ - 1]
    /\ held[s][inst[s].lock] = 1 => s \notin Holders(inst[s].lock)'
    /\ call'.exc = "none" /\ call'.leaves = e]_vars

\* A block whose body raised RuntimeError has been left: the exception went
\* on, and the lock is free for the other sessions.
C20_Witness == /\ call.op = "__exit__" /\ call.exc = "none" /\ call.leaves = "RuntimeError"
               /\ inst[call.s].lock # NoLock /\ Holders(inst[call.s].lock) = {}

\* C21 as stated: set_failed called by a session that holds the advisory lock
\* of its task, and whose own record of the task is not final, matches
\* exactly one row.
C21_Original == [][\A s \in Sessions, err \in Errors : (Did(s, "set_failed") /\ set_failed(s, err) /\ InBlock(s) /\ inst[s].row.state \notin TASK_FINAL_STATES) => call'.rows = 1]_vars

\* C21 amended: set_failed called by a session that holds the advisory lock
\* of its task matches exactly one row when the stored state is not final at
\* the call, whatever the session's own record says; when another writer has
\* made the task final during the hold it matches no row, raises
\* RuntimeError, changes no row and leaves the lock held and the record in
\* memory as they were.
C21_LockDoesNotStopWriters == [][\A s \in Sessions, err \in Errors : (Did(s, "set_failed") /\ set_failed(s, err) /\ InBlock(s)) =>
    IF tasks[inst[s].pk].state \notin TASK_FINAL_STATES
    THEN call'.rows = 1 /\ call'.exc = "none" /\ tasks'[inst[s].pk].state = FAILED
    ELSE call'.rows = 0 /\ call'.exc = "RuntimeError" /\ tasks' = tasks /\ held' = held /\ inst' = inst]_vars

\* The lock holder set its task running, a cancellation made the task final
\* during the hold, and the holder's set_failed matched nothing.
C21_Witness == /\ call.op = "set_failed" /\ call.rows = 0 /\ call.exc = "RuntimeError"
               /\ InBlock(call.s) /\ inst[call.s].pk = call.pk /\ inst[call.s].row.state = RUNNING
               /\ tasks[call.pk].state = CANCELED /\ tasks[call.pk].error = NullError

\* The fields the state transitions write.
Outcome(row) == [state |-> row.state, started_at |-> row.started_at, finished_at |-> row.finished_at, error |-> row.error]

\* The instance of session s has, after the step, the fields of its row.
Reloaded(s) == Outcome(inst'[s].row) = Outcome(tasks'[inst[s].pk]) /\ inst'[s].row = tasks'[inst[s].pk]

\* C22: when set_running, set_completed or set_failed returns without
\* raising, whether its update matched one row or none, the caller's
\* instance has the state, started_at, finished_at and error (and every
\* other field) of the stored row as it is after the update.
C22_MemoryFollowsStore == [][\A s \in Sessions :
    /\ (Did(s, "set_running") /\ set_running(s)) => Reloaded(s)
    /\ (Did(s, "set_completed") /\ set_completed(s)) => Reloaded(s)
    /\ \A err \in Errors : (Did(s, "set_failed") /\ set_failed(s, err) /\ call'.exc = "none") => Reloaded(s)]_vars

\* set_completed matched nothing on a task that ran and was canceled by
\* another writer at a later time, and the caller's instance shows the
\* cancellation.
C22_Witness == /\ call.op = "set_completed" /\ call.rows = 0 /\ call.exc = "none"
               /\ tasks[call.pk].state = CANCELED /\ tasks[call.pk].started_at # NullTime /\ tasks[call.pk].finished_at > tasks[call.pk].started_at
               /\ inst[call.s].pk = call.pk /\ Outcome(inst[call.s].row) = Outcome(tasks[call.pk])

\* C23: set_running, set_completed and set_failed leave, in every stored
\* row, reserved_resources_record, name, args, kwargs, worker, parent_task
\* and task_group as they were, whatever the caller's instance carries for
\* them; and the stored reservation list of a task is, in every state, the
\* one written at its creation.
C23_UpdatesWriteNoOtherField ==
    /\ [](\A t \in TaskIds : tasks[t].reserved_resources_record = ReservedAtCreation(t))
    /\ [][\A s \in Sessions :
        /\ (Did(s, "set_running") /\ set_running(s)) => \A t \in TaskIds : Frame(tasks'[t]) = Frame(tasks[t])
        /\ (Did(s, "set_completed") /\ set_completed(s)) => \A t \in TaskIds : Frame(tasks'[t]) = Frame(tasks[t])
        /\ \A err \in Errors : (Did(s, "set_failed") /\ set_failed(s, err)) => \A t \in TaskIds : Frame(tasks'[t]) = Frame(tasks[t])]_vars

\* set_failed matched the row, called on an instance that carried other
\* values for those fields, and the row has the values of its creation.
C23_Witness == /\ call.op = "set_failed" /\ call.rows = 1 /\ call.dirty
               /\ tasks[call.pk].state = FAILED /\ tasks[call.pk].started_at # NullTime
               /\ tasks[call.pk].reserved_resources_record = ReservedAtCreation(call.pk) /\ tasks[call.pk].name = NameAtCreation(call.pk)

\* C25: the stored error of a task created with error null is non-null only
\* while its state is failed; set_running and set_completed leave the error
\* of every task as it was, and set_failed writes it to the row it moves to
\* failed and to no other.
C25_ErrorOnlyWhenFailed ==
    /\ [](\A t \in TaskIds : tasks[t].error # NullError => tasks[t].state = FAILED)
    /\ [][\A s \in Sessions :
        /\ (Did(s, "set_running") /\ set_running(s)) => \A t \in TaskIds : tasks'[t].error = tasks[t].error
        /\ (Did(s, "set_completed") /\ set_completed(s)) => \A t \in TaskIds : tasks'[t].error = tasks[t].error
        /\ \A err \in Errors : (Did(s, "set_failed") /\ set_failed(s, err)) => \A t \in TaskIds : tasks'[t].error # tasks[t].error => (tasks[t].state # FAILED /\ tasks'[t].state = FAILED /\ tasks'[t].error = err)]_vars

\* A task that ran has failed with its error stored, and a later
\* set_completed on it matched nothing.
C25_Witness == /\ call.op = "set_completed" /\ call.rows = 0
               /\ tasks[call.pk].state = FAILED /\ tasks[call.pk].error \in Errors /\ tasks[call.pk].started_at # NullTime

\* C26: in every step of every writer, a stored started_at or finished_at
\* that is not null keeps its value.
C26_TimestampsWrittenOnce == [][\A t \in TaskIds :
    /\ tasks[t].started_at # NullTime => tasks'[t].started_at = tasks[t].started_at
    /\ tasks[t].finished_at # NullTime => tasks'[t].finished_at = tasks[t].finished_at]_vars

\* set_running was called again, at a later time, on a task that had
\* started and finished, and matched nothing.
C26_Witness == /\ call.op = "set_running" /\ call.rows = 0
               /\ tasks[call.pk].started_at # NullTime /\ tasks[call.pk].started_at < now
               /\ tasks[call.pk].finished_at # NullTime /\ wins[call.pk].run = 1 /\ wins[call.pk].fin = 1

\* The instance Worker.objects.get(pk=w) returns for the stored row w.
Loaded(w) == [pk |-> w, name |-> workers[w].name, last_heartbeat |-> workers[w].last_heartbeat]

\* C27: at every time, online_workers() and missing_workers() with the
\* default age are disjoint and together hold every stored worker; each
\* stored worker, read from its row, is in online_workers() iff its online
\* property is true and in missing_workers() iff its missing property is
\* true, and exactly one of the two properties is true of it, as of every
\* instance in memory that carries a timestamp.
C27_OnlineXorMissing ==
    /\ online_workers \cap missing_workers(WORKER_TTL) = {}
    /\ online_workers \cup missing_workers(WORKER_TTL) = StoredWorkers
    /\ \A w \in StoredWorkers :
        /\ online(Loaded(w)) # missing(Loaded(w))
        /\ w \in online_workers <=> online(Loaded(w))
        /\ w \in missing_workers(WORKER_TTL) <=> missing(Loaded(w))
    /\ \A i \in Instances : online(i) # missing(i)

\* Both queries return a worker, one of them with a heartbeat aged exactly
\* TTL, while an instance in memory is older than its row.
C27_Witness == /\ missing_workers(WORKER_TTL) # {}
               /\ \E w \in online_workers : workers[w].last_heartbeat = now - WORKER_TTL
               /\ \E i \in Instances : i.pk \in StoredWorkers /\ i.last_heartbeat < workers[i.pk].last_heartbeat


\* The locked roles of the table whose name starts with the prefix.
LockedRoles(table, role_prefix) == {n \in DOMAIN table : table[n].stored /\ table[n].locked /\ StartsWith(n, role_prefix)}

====
